---- MODULE Spec2Model ----
(***************************************************************************)
(* Driver lifecycle of the Starling Driver Hub server: the profile record  *)
(* of src/shared/schema.ts, the storage methods of src/server/storage.ts   *)
(* and the request handlers of src/server/routes.ts.                       *)
(*                                                                         *)
(* Spec  : every handler runs to completion before the next request starts *)
(*         (one action per handler).                                       *)
(* SpecO : the onboarding wizard with every request body, and the admin    *)
(*         decisions.                                                      *)
(* SpecS : syncDriverToOnfleet called repeatedly against the Onfleet       *)
(*         account.                                                        *)
(* SpecA : the availability store, the external lookup by phone and the    *)
(*         token proxy, one request after another.                         *)
(* SpecAC: two POST /api/availability requests interleaved at the awaits   *)
(*         of upsertDriverAvailability.                                    *)
(* SpecW : the identity verification under every configuration of the      *)
(*         webhook secret and NODE_ENV.                                    *)
(* SpecV : a status poll and webhooks for one verification session,        *)
(*         interleaved at their awaits.                                    *)
(* SpecC : the handlers of PATCH /api/profile, GET /api/profile and the    *)
(*         admin decisions are split at their awaits on the storage, so    *)
(*         that requests on the same profile interleave.                   *)
(***************************************************************************)
EXTENDS Integers, FiniteSets, Sequences, TLC

VARIABLES
    profiles,   \* table driver_profiles: user id -> row, or NoProfile
    env,        \* process.env: STRIPE_WEBHOOK_SECRET set, NODE_ENV production
    last,       \* the request served last, the status of its response and,
                \* for an admin decision, the approvalStatus it read
    patchReq,   \* SpecC: the PATCH /api/profile request in flight
    adminReq,   \* SpecC: the admin decision in flight
    readReq,    \* SpecC: the GET /api/profile request in flight
    onfleet,    \* the Onfleet account: phone number -> ids of the workers
                \* that hold it, oldest first
    sync,       \* the syncDriverToOnfleet call of the request served last:
                \* its remote calls and the SyncResult it returned
    availability, \* table driver_availability: the set of its rows
    reply,      \* the body of the response served last by an availability,
                \* lookup or proxy route
    availReq,   \* SpecAC: the POST /api/availability requests in flight
    verifyReq   \* SpecV: the poll and webhook requests in flight

vars == <<profiles, env, last, patchReq, adminReq, readReq, onfleet, sync,
          availability, reply, availReq, verifyReq>>

(***************************************************************************)
(* Bounds of the model.                                                    *)
(***************************************************************************)
\* highest onboardingStep a request body carries (the column is an integer)
MaxStep == 6
\* number of distinct instants new Date() can yield
MaxTime == 2
\* number of workers the Onfleet account can hold
MaxWorkers == 3
\* number of distinct calendar dates of availability entries
MaxDate == 2

(***************************************************************************)
(* Values.                                                                 *)
(***************************************************************************)
Null == "null"          \* SQL NULL / JS null
Absent == "absent"      \* key not present in a request body (undefined)
T == "true"             \* boolean columns hold T, F (or Null)
F == "false"
NoStep == -1            \* onboardingStep not present in an object (undefined)
NoTime == -1            \* a timestamp not present in an update object
NullTime == 0           \* a timestamp column that is NULL

Users == {"u1"}
Admins == {"admin1"}
Times == 1..MaxTime
Sessions == {"vs_1"}
\* phone numbers as the drivers type them, and as Onfleet stores them
Phone1 == "416-555-1234"
Phone1Intl == "+14165551234"
Phone2 == "647-555-0199"
Phones == {Phone1, Phone1Intl, Phone2}
OnfleetPhone1 == "+14165551234"
OnfleetPhone2 == "+16475550199"
RemotePhones == {OnfleetPhone1, OnfleetPhone2}

\* formatPhoneForOnfleet: digits only; 10 digits get "+1", 11 digits that
\* start with 1 get "+", anything else is returned as given
formatPhoneForOnfleet(phone) ==
    CASE phone = Phone1 -> OnfleetPhone1
      [] phone = Phone1Intl -> OnfleetPhone1
      [] phone = Phone2 -> OnfleetPhone2
      [] OTHER -> phone

\* ids the Onfleet account gives the workers it creates, in order of creation
WorkerIds == <<"w1", "w2", "w3", "w4">>

\* status vocabulary of the verification provider; "other" is any status the
\* handlers do not name
RemoteStatuses == {"verified", "requires_input", "requires_action", "canceled",
                   "processing", "requires_review", "other"}

NoProfile == [id |-> Null]

SyncResult(success, onfleetId, isExisting, error) ==
    [success |-> success, onfleetId |-> onfleetId, isExisting |-> isExisting, error |-> error]

\* one call of syncDriverToOnfleet: the phone it was given, the outcome of
\* each remote call it made ("-" if not made) and the SyncResult returned
SyncRun(phone, find, update, create, result) ==
    [phone |-> phone, find |-> find, update |-> update, create |-> create, result |-> result]

NoSync == SyncRun(Null, "-", "-", "-", SyncResult(FALSE, Null, FALSE, ""))

\* the profile id the database generates for the row of user u
ProfileId(u) == u

(***************************************************************************)
(* Request bodies of POST/PATCH /api/profile.  A body carries any of the   *)
(* lifecycle columns and the fields of at most one onboarding form.        *)
(***************************************************************************)
Forms == {"none", "personal", "address", "vehicle"}

Body(step, completed, signed, approval, idv, form) ==
    [ onboardingStep |-> step, onboardingCompleted |-> completed,
      agreementSigned |-> signed, approvalStatus |-> approval,
      identityVerificationStatus |-> idv, form |-> form ]

\* a form of the onboarding wizard or of the profile pages, with or without
\* a target step
FormBodies ==
    { Body(s, Absent, Absent, Absent, Absent, f) :
        s \in {NoStep} \cup (2..MaxStep), f \in Forms }

\* the agreement step and any other body made of the three onboarding flags
FlagBodies ==
    { Body(s, c, g, Absent, Absent, "none") :
        s \in {NoStep, 5}, c \in {Absent, T, F}, g \in {Absent, T, F} }

\* bodies that name the columns of the admin decision and the verification
TamperBodies ==
    { Body(NoStep, Absent, Absent, a, i, "none") :
        a \in {Absent, "approved"}, i \in {Absent, "verified"} }

Bodies == FormBodies \cup FlagBodies \cup TamperBodies

\* the bodies that move the lifecycle columns: the flags, the admin and
\* verification columns, and the personal form (the one that sets phone)
LifecycleBodies ==
    FlagBodies \cup TamperBodies
      \cup { Body(2, Absent, Absent, Absent, Absent, "personal") }

\* JS truthiness of a boolean or string value
Truthy(v) == v \notin {Absent, Null, F, ""}

\* a || d
OrElse(v, d) == IF Truthy(v) THEN v ELSE d

\* the phone field of a body: the personal-information form carries it
BodyPhone(b) == IF b.form \in {"personal", "personalNoDeposit"} THEN Phone1 ELSE Absent

(***************************************************************************)
(* Step schemas of routes.ts.                                              *)
(***************************************************************************)
\* names, e-mails, Canadian phone and etransferAutoDepositConfirmed === true
step1ValidationSchema(b) == b.form = "personal"

\* streetAddress, city, province, postalCode
step2ValidationSchema(b) == b.form = "address"

\* vehicle descriptor fields and both photo references
step3ValidationSchema(b) == b.form = "vehicle"

\* agreementSigned: z.literal(true)
step4ValidationSchema(b) == b.agreementSigned = T

\* a chain that lets the vehicle step through unvalidated
StepValidation_SkipsVehicle(b) ==
    LET targetStep == b.onboardingStep IN
    IF targetStep = 2 THEN step1ValidationSchema(b)
    ELSE IF targetStep = 3 THEN step2ValidationSchema(b)
    ELSE IF targetStep = 5 /\ Truthy(b.onboardingCompleted) THEN step4ValidationSchema(b)
    ELSE TRUE

\* the if/else-if chain on targetStep: TRUE iff no schema throws
StepValidation(b) ==
    LET targetStep == b.onboardingStep IN
    IF targetStep = 2 THEN step1ValidationSchema(b)
    ELSE IF targetStep = 3 THEN step2ValidationSchema(b)
    ELSE IF targetStep = 4 THEN step3ValidationSchema(b)
    ELSE IF targetStep = 5 /\ Truthy(b.onboardingCompleted) THEN step4ValidationSchema(b)
    ELSE TRUE

\* a schema that strips onboardingStep from the body
updateDriverProfileSchema_OmitsStep(b) ==
    [ onboardingStep |-> NoStep,
      onboardingCompleted |-> b.onboardingCompleted,
      agreementSigned |-> b.agreementSigned,
      phone |-> BodyPhone(b),
      approvalStatus |-> b.approvalStatus,
      identityVerificationStatus |-> b.identityVerificationStatus ]

\* updateDriverProfileSchema.parse: the partial insert schema keeps every
\* column of driver_profiles the body carries (id, userId, createdAt and
\* updatedAt are omitted), the lifecycle columns included
updateDriverProfileSchema(b) ==
    [ onboardingStep |-> b.onboardingStep,
      onboardingCompleted |-> b.onboardingCompleted,
      agreementSigned |-> b.agreementSigned,
      phone |-> BodyPhone(b),
      approvalStatus |-> b.approvalStatus,
      identityVerificationStatus |-> b.identityVerificationStatus ]

(***************************************************************************)
(* Storage.                                                                *)
(***************************************************************************)
getDriverProfile(u) == profiles[u]

\* the row whose id is pid, or NoProfile
getDriverProfileById(pid) ==
    IF \E u \in Users : profiles[u].id = pid
    THEN profiles[CHOOSE u \in Users : profiles[u].id = pid]
    ELSE NoProfile

\* INSERT ... RETURNING: columns not given take their defaults
createDriverProfile(u, data) ==
    [ id |-> ProfileId(u),
      onboardingStep |-> data.onboardingStep,
      onboardingCompleted |-> data.onboardingCompleted,
      agreementSigned |-> data.agreementSigned,
      phone |-> data.phone,
      approvalStatus |-> Null,
      approvedAt |-> NullTime,
      approvedBy |-> Null,
      identityVerificationStatus |-> Null,
      identityVerificationSessionId |-> Null,
      identityVerifiedAt |-> NullTime,
      onfleetId |-> Null ]

\* a key of an update object that is undefined is not part of the SET
Undefined(k, v) ==
    IF k = "onboardingStep" THEN v = NoStep
    ELSE IF k \in {"approvedAt", "identityVerifiedAt"} THEN v = NoTime
    ELSE v = Absent

\* UPDATE ... SET data RETURNING: the keys data carries overwrite the row
updateDriverProfile(row, data) ==
    [ k \in DOMAIN row |->
        IF k \in DOMAIN data /\ ~Undefined(k, data[k]) THEN data[k] ELSE row[k] ]

\* the same update addressed by profile id
updateDriverProfileById(row, data) == updateDriverProfile(row, data)

(***************************************************************************)
(* Initial state: no profile, no request served.                           *)
(***************************************************************************)
Idle == [pc |-> "idle"]

\* process.env of the deployment: STRIPE_WEBHOOK_SECRET set, NODE_ENV
\* production, AVAILABILITY_API_URL set
DefaultEnv == [secret |-> TRUE, production |-> TRUE, availabilityApi |-> TRUE]

\* requests that can be in flight at the same time
Requests == {1, 2}

\* no availability, lookup or proxy route has answered yet
NoReply == [route |-> "none"]

Init ==
    /\ profiles = [u \in Users |-> NoProfile]
    /\ env = DefaultEnv
    /\ last = [op |-> "none", status |-> 0, seen |-> "-"]
    /\ patchReq = Idle
    /\ adminReq = Idle
    /\ readReq = Idle
    /\ onfleet = [p \in RemotePhones |-> <<>>]
    /\ sync = NoSync
    /\ availability = {}
    /\ reply = NoReply
    /\ availReq = [r \in Requests |-> Idle]
    /\ verifyReq = [r \in Requests |-> Idle]

Respond(op, status) == last' = [op |-> op, status |-> status, seen |-> "-"]

\* the response of an admin decision that read a row with approvalStatus seen
RespondAdmin(op, status, seen) == last' = [op |-> op, status |-> status, seen |-> seen]

\* the response of a PATCH that updated an existing row with the fields of form
RespondPatch(status, form) == last' = [op |-> "patch", status |-> status, seen |-> form]

\* the response of a poll or webhook that mapped the remote status it was given
RespondVerification(op, remote) == last' = [op |-> op, status |-> 200, seen |-> remote]

Store(u, row) == profiles' = [profiles EXCEPT ![u] = row]

Sequential == UNCHANGED <<env, patchReq, adminReq, readReq, availReq, verifyReq>>

\* a request that touches neither the availability table nor its routes
NoAvailability == UNCHANGED <<availability, reply>>

\* a request that does not call syncDriverToOnfleet
NoFleetSync == onfleet' = onfleet /\ sync' = NoSync

\* the createData object of POST and PATCH /api/profile
CreateData(b) ==
    [ onboardingStep |-> IF b.onboardingStep = NoStep THEN 1 ELSE b.onboardingStep,
      onboardingCompleted |-> OrElse(b.onboardingCompleted, F),
      agreementSigned |-> OrElse(b.agreementSigned, F),
      phone |-> OrElse(BodyPhone(b), Null) ]

(***************************************************************************)
(* POST /api/profile                                                       *)
(***************************************************************************)
PostProfile(u, b) ==
    /\ Sequential
    /\ NoAvailability
    /\ NoFleetSync
    /\ IF getDriverProfile(u) # NoProfile
       THEN /\ Respond("create", 400)
            /\ UNCHANGED profiles
       ELSE /\ Store(u, createDriverProfile(u, CreateData(b)))
            /\ Respond("create", 201)

(***************************************************************************)
(* PATCH /api/profile                                                      *)
(***************************************************************************)
\* the row after the handler's writes: the validated update, then the
\* derived approvalStatus = "pending"
PatchResult(row, b) ==
    LET updatedProfile == updateDriverProfile(row, updateDriverProfileSchema(b)) IN
    IF Truthy(updatedProfile.onboardingCompleted) /\ ~Truthy(updatedProfile.approvalStatus)
    THEN updateDriverProfile(updatedProfile, [approvalStatus |-> "pending"])
    ELSE updatedProfile

PatchProfile(u, b) ==
    /\ Sequential
    /\ NoAvailability
    /\ NoFleetSync
    /\ LET profile == getDriverProfile(u) IN
       IF profile = NoProfile
       THEN /\ Store(u, createDriverProfile(u, CreateData(b)))
            /\ Respond("patch", 200)
       ELSE IF ~StepValidation(b)
       THEN /\ Respond("patch", 400)
            /\ UNCHANGED profiles
       ELSE /\ Store(u, PatchResult(profile, b))
            /\ RespondPatch(200, b.form)

(***************************************************************************)
(* POST /api/admin/approve/:profileId and /api/admin/reject/:profileId     *)
(***************************************************************************)
\* the user whose row has id pid
Owner(pid) == CHOOSE u \in Users : profiles[u].id = pid

\* an approve that forgets to open the identity verification
AdminApprove_NoVerification(adminUserId, pid, now) ==
    /\ Sequential
    /\ NoAvailability
    /\ NoFleetSync
    /\ LET profile == getDriverProfileById(pid) IN
       IF profile = NoProfile
       THEN /\ Respond("approve", 404)
            /\ UNCHANGED profiles
       ELSE IF profile.approvalStatus = "approved"
       THEN /\ RespondAdmin("approve", 400, profile.approvalStatus)
            /\ UNCHANGED profiles
       ELSE /\ Store(Owner(pid), updateDriverProfileById(profile,
                    [ approvalStatus |-> "approved",
                      approvedAt |-> now,
                      approvedBy |-> adminUserId ]))
            /\ RespondAdmin("approve", 200, profile.approvalStatus)

AdminApprove(adminUserId, pid, now) ==
    /\ Sequential
    /\ NoAvailability
    /\ NoFleetSync
    /\ LET profile == getDriverProfileById(pid) IN
       IF profile = NoProfile
       THEN /\ Respond("approve", 404)
            /\ UNCHANGED profiles
       ELSE IF profile.approvalStatus = "approved"
       THEN /\ RespondAdmin("approve", 400, profile.approvalStatus)
            /\ UNCHANGED profiles
       ELSE /\ Store(Owner(pid), updateDriverProfileById(profile,
                    [ approvalStatus |-> "approved",
                      approvedAt |-> now,
                      approvedBy |-> adminUserId,
                      identityVerificationStatus |-> "pending" ]))
            /\ RespondAdmin("approve", 200, profile.approvalStatus)

AdminReject(adminUserId, pid, now) ==
    /\ Sequential
    /\ NoAvailability
    /\ NoFleetSync
    /\ LET profile == getDriverProfileById(pid) IN
       IF profile = NoProfile
       THEN /\ Respond("reject", 404)
            /\ UNCHANGED profiles
       ELSE /\ Store(Owner(pid), updateDriverProfileById(profile,
                    [ approvalStatus |-> "rejected",
                      approvedAt |-> now,
                      approvedBy |-> adminUserId ]))
            /\ RespondAdmin("reject", 200, profile.approvalStatus)

(***************************************************************************)
(* POST /api/identity/create-session                                       *)
(***************************************************************************)
\* stripe.identity.verificationSessions.create: a session id, or a throw
StripeCreateResults == Sessions \cup {"throw"}

CreateSession(u, created) ==
    /\ Sequential
    /\ NoAvailability
    /\ NoFleetSync
    /\ LET profile == getDriverProfile(u) IN
       IF profile = NoProfile
       THEN /\ Respond("session", 404)
            /\ UNCHANGED profiles
       ELSE IF profile.approvalStatus # "approved"
               \/ profile.identityVerificationStatus = "verified"
       THEN /\ Respond("session", 400)
            /\ UNCHANGED profiles
       ELSE IF created = "throw"
       THEN /\ Respond("session", 500)
            /\ UNCHANGED profiles
       ELSE /\ Store(u, updateDriverProfile(profile,
                    [ identityVerificationSessionId |-> created,
                      identityVerificationStatus |-> "requires_input" ]))
            /\ Respond("session", 200)

(***************************************************************************)
(* Onfleet client of storage.ts.  A remote call either gets its answer or  *)
(* fails (network error or non-2xx response); the three wrappers turn a    *)
(* failure into null.                                                      *)
(***************************************************************************)
\* findWorkerByPhone: the outcomes of GET /workers?phones=<formatted phone>
\* and what the wrapper returns for each: workers[0], or null
findWorkerByPhone(phone) ==
    LET held == onfleet[formatPhoneForOnfleet(phone)] IN
    { [call |-> "failed", worker |-> Null] }
      \cup (IF held # <<>>
            THEN { [call |-> "found", worker |-> Head(held)] }
            ELSE { [call |-> "none", worker |-> Null] })

\* the number of workers of the account
WorkerCount == Len(onfleet[OnfleetPhone1]) + Len(onfleet[OnfleetPhone2])

\* createWorker: POST /workers with the formatted phone; the account stores
\* a new worker, or the call fails and the wrapper returns null
createWorker(phone) ==
    { [call |-> "failed", worker |-> Null, workers |-> onfleet] }
      \cup (IF WorkerCount < MaxWorkers
            THEN LET id == WorkerIds[WorkerCount + 1]
                     key == formatPhoneForOnfleet(phone)
                 IN { [ call |-> "ok", worker |-> id,
                        workers |-> [onfleet EXCEPT ![key] = Append(@, id)] ] }
            ELSE {})

\* updateWorker: PUT /workers/<id>; the wrapper returns the worker, or null
updateWorker(workerId) == { "ok", "failed" }

\* the ways a call of syncDriverToOnfleet can go: its run and the workers
\* of the account after it
syncDriverToOnfleet(phone) ==
    IF ~Truthy(phone)
    THEN { [ run |-> SyncRun(phone, "-", "-", "-",
                       SyncResult(FALSE, Null, FALSE, "Phone number is required")),
             workers |-> onfleet ] }
    ELSE UNION {
           IF Truthy(existingWorker.worker)
           THEN { [ run |-> SyncRun(phone, existingWorker.call, upd, "-",
                              SyncResult(TRUE, existingWorker.worker, TRUE, "")),
                    workers |-> onfleet ] :
                    upd \in updateWorker(existingWorker.worker) }
           ELSE { [ run |-> SyncRun(phone, existingWorker.call, "-", newWorker.call,
                              IF Truthy(newWorker.worker)
                              THEN SyncResult(TRUE, newWorker.worker, FALSE, "")
                              ELSE SyncResult(FALSE, Null, FALSE,
                                              "Failed to create worker in Onfleet")),
                    workers |-> newWorker.workers ] :
                    newWorker \in createWorker(phone) } :
           existingWorker \in findWorkerByPhone(phone) }

\* a step of a driver sync issued for phone
SyncDriver(phone) ==
    /\ \E o \in syncDriverToOnfleet(phone) :
          /\ sync' = o.run
          /\ onfleet' = o.workers
    /\ UNCHANGED <<profiles, env, last, patchReq, adminReq, readReq,
                   availability, reply, availReq, verifyReq>>

(***************************************************************************)
(* Recording a verification status (poll and webhook handlers).            *)
(***************************************************************************)
\* the update objects { identityVerificationStatus, identityVerifiedAt? }
\* the handlers can build: new Date() is evaluated for "verified" only
VerificationUpdates(newStatus) ==
    IF newStatus = "verified"
    THEN { [identityVerificationStatus |-> newStatus, identityVerifiedAt |-> now] :
             now \in Times }
    ELSE { [identityVerificationStatus |-> newStatus] }

\* a sync block that takes the verification back when the sync fails
AfterSync_RollsBack(profile, row, newStatus) ==
    IF newStatus = "verified" /\ Truthy(profile.phone) /\ ~Truthy(profile.onfleetId)
    THEN { [ row |-> IF o.run.result.success /\ Truthy(o.run.result.onfleetId)
                     THEN updateDriverProfile(row, [onfleetId |-> o.run.result.onfleetId])
                     ELSE profile,
             run |-> o.run,
             workers |-> o.workers ] :
             o \in syncDriverToOnfleet(profile.phone) }
    ELSE { [row |-> row, run |-> NoSync, workers |-> onfleet] }

\* what the sync block of the poll and webhook handlers can leave: profile
\* is the row the handler read at its start, row the stored row after the
\* status update
AfterSync(profile, row, newStatus) ==
    IF newStatus = "verified" /\ Truthy(profile.phone) /\ ~Truthy(profile.onfleetId)
    THEN { [ row |-> IF o.run.result.success /\ Truthy(o.run.result.onfleetId)
                     THEN updateDriverProfile(row, [onfleetId |-> o.run.result.onfleetId])
                     ELSE row,
             run |-> o.run,
             workers |-> o.workers ] :
             o \in syncDriverToOnfleet(profile.phone) }
    ELSE { [row |-> row, run |-> NoSync, workers |-> onfleet] }

\* what recording newStatus for the row a handler read can leave
RecordVerification(profile, newStatus) ==
    UNION { AfterSync(profile, updateDriverProfile(profile, upd), newStatus) :
              upd \in VerificationUpdates(newStatus) }

\* the stored row, the sync run and the account after recording
Recorded(u, o) ==
    /\ Store(u, o.row)
    /\ sync' = o.run
    /\ onfleet' = o.workers

(***************************************************************************)
(* GET /api/identity/status                                                *)
(***************************************************************************)
\* the switch on session.status; current is the local status
PollStatus(remote, current) ==
    CASE remote = "verified" -> "verified"
      [] remote \in {"requires_input", "requires_action"} -> "requires_input"
      [] remote = "canceled" -> "failed"
      [] remote \in {"processing", "requires_review"} -> "pending"
      [] OTHER -> current

\* stripe.identity.verificationSessions.retrieve: a status, or a throw
StripeRetrieveResults == RemoteStatuses \cup {"throw"}

IdentityStatus(u, remote) ==
    /\ Sequential
    /\ NoAvailability
    /\ LET profile == getDriverProfile(u) IN
       IF profile = NoProfile
       THEN /\ Respond("poll", 404)
            /\ UNCHANGED profiles
            /\ NoFleetSync
       ELSE IF ~Truthy(profile.identityVerificationSessionId)
       THEN /\ Respond("poll", 200)
            /\ UNCHANGED profiles
            /\ NoFleetSync
       ELSE IF remote = "throw"
       THEN /\ Respond("poll", 500)
            /\ UNCHANGED profiles
            /\ NoFleetSync
       ELSE LET newStatus == PollStatus(remote, profile.identityVerificationStatus) IN
            /\ RespondVerification("poll", remote)
            /\ IF newStatus # profile.identityVerificationStatus
               THEN \E o \in RecordVerification(profile, newStatus) : Recorded(u, o)
               ELSE UNCHANGED profiles /\ NoFleetSync

(***************************************************************************)
(* POST /api/webhooks/stripe-identity                                      *)
(***************************************************************************)
\* the switch on session.status of the webhook
WebhookStatus(remote) ==
    CASE remote = "verified" -> "verified"
      [] remote \in {"requires_input", "requires_action"} -> "requires_input"
      [] remote = "canceled" -> "failed"
      [] remote \in {"processing", "requires_review"} -> "pending"
      [] OTHER -> "pending"

Event(sig, identity, sessionId, status) ==
    [sig |-> sig, identity |-> identity, sessionId |-> sessionId, status |-> status]

\* events the endpoint can receive: sig is the stripe-signature header
\* ("valid" iff constructEvent accepts it), identity whether event.type
\* starts with "identity.verification_session."
Events ==
    { Event(g, TRUE, i, r) :
        g \in {"valid", "invalid", "missing"}, i \in Sessions, r \in RemoteStatuses }
    \cup { Event("valid", TRUE, "vs_unknown", "verified"),
           Event("valid", FALSE, "vs_1", "verified") }

\* a gate that parses unsigned events in production too
WebhookGate_ParsesUnsignedInProduction(ev) ==
    IF env.secret /\ ev.sig = "missing" THEN 400
    ELSE IF env.secret /\ ev.sig # "valid" THEN 400
    ELSE 0

\* the status the signature gate answers with, 0 if the event is let through
WebhookGate(ev) ==
    IF env.production /\ ~env.secret THEN 500
    ELSE IF env.secret /\ ev.sig = "missing" THEN 400
    ELSE IF env.secret /\ ev.sig # "valid" THEN 400
    ELSE 0

\* profiles.find(p => p.identityVerificationSessionId === sessionId)
FindBySession(sessionId) ==
    { u \in Users : /\ profiles[u] # NoProfile
                    /\ profiles[u].identityVerificationSessionId = sessionId }

StripeWebhook(ev) ==
    /\ Sequential
    /\ NoAvailability
    /\ IF WebhookGate(ev) # 0
       THEN /\ Respond("webhook", WebhookGate(ev))
            /\ UNCHANGED profiles
            /\ NoFleetSync
       ELSE IF ev.identity /\ FindBySession(ev.sessionId) # {}
       THEN LET u == CHOOSE v \in FindBySession(ev.sessionId) : TRUE
                profile == profiles[u]
                newStatus == WebhookStatus(ev.status)
            IN /\ RespondVerification("webhook", ev.status)
               /\ \E o \in RecordVerification(profile, newStatus) : Recorded(u, o)
       ELSE /\ Respond("webhook", 200)
            /\ UNCHANGED profiles
            /\ NoFleetSync

\* the requests of the admin pages
AdminNext ==
    \/ \E a \in Admins, u \in Users, t \in Times : AdminApprove(a, ProfileId(u), t)
    \/ \E a \in Admins, u \in Users, t \in Times : AdminReject(a, ProfileId(u), t)

\* the requests of the identity verification
VerificationNext ==
    \/ \E u \in Users, c \in StripeCreateResults : CreateSession(u, c)
    \/ \E u \in Users, r \in StripeRetrieveResults : IdentityStatus(u, r)
    \/ \E ev \in Events : StripeWebhook(ev)

\* the whole lifecycle: profile writes that move the lifecycle columns,
\* admin decisions and identity verification
Next ==
    \/ \E u \in Users, b \in LifecycleBodies : PostProfile(u, b)
    \/ \E u \in Users, b \in LifecycleBodies : PatchProfile(u, b)
    \/ AdminNext
    \/ VerificationNext

Spec == Init /\ [][Next]_vars

\* onboarding and approval: every body of the onboarding wizard, with the
\* admin decisions
NextO ==
    \/ \E u \in Users, b \in Bodies : PostProfile(u, b)
    \/ \E u \in Users, b \in Bodies : PatchProfile(u, b)
    \/ AdminNext

SpecO == Init /\ [][NextO]_vars

\* deployments: STRIPE_WEBHOOK_SECRET set or not, NODE_ENV production or not
Deployments ==
    { [DefaultEnv EXCEPT !.secret = k, !.production = p] : k \in BOOLEAN, p \in BOOLEAN }

\* the row of a driver who completed onboarding, was approved and opened
\* the verification session vs_1
SessionRows(u) ==
    { updateDriverProfile(
        createDriverProfile(u, [ onboardingStep |-> 5, onboardingCompleted |-> T,
                                 agreementSigned |-> T, phone |-> p ]),
        [ approvalStatus |-> "approved", approvedAt |-> 1, approvedBy |-> "admin1",
          identityVerificationStatus |-> "requires_input",
          identityVerificationSessionId |-> "vs_1" ]) :
        p \in {Phone1, Null} }

InitW ==
    /\ profiles \in [Users -> UNION { SessionRows(u) : u \in Users }]
    /\ \A u \in Users : profiles[u].id = ProfileId(u)
    /\ env \in Deployments
    /\ last = [op |-> "none", status |-> 0, seen |-> "-"]
    /\ patchReq = Idle
    /\ adminReq = Idle
    /\ readReq = Idle
    /\ onfleet = [p \in RemotePhones |-> <<>>]
    /\ sync = NoSync
    /\ availability = {}
    /\ reply = NoReply
    /\ availReq = [r \in Requests |-> Idle]
    /\ verifyReq = [r \in Requests |-> Idle]

\* identity verification of an approved driver, in every deployment
SpecW == InitW /\ [][VerificationNext]_vars

\* driver syncs issued one after another, for any of the phone numbers
NextS == \E phone \in Phones \cup {Null} : SyncDriver(phone)

SpecS == Init /\ [][NextS]_vars

(***************************************************************************)
(* Availability store: storage.ts and the routes of /api/availability.     *)
(* A date "YYYY-MM-DD" is the number of its day; the order of the numbers  *)
(* is the order of the strings that gte/lte compare.                       *)
(***************************************************************************)
Dates == 1..MaxDate
BadDate == 0            \* a date that fails /^\d{4}-\d{2}-\d{2}$/
NoDate == -1            \* startDate or endDate not in the query
AvailabilityStatuses == {"available", "unavailable"}

AvailabilityRow(id, pid, date, status) ==
    [id |-> id, driverProfileId |-> pid, date |-> date, status |-> status]

\* the sequences a SELECT with no ORDER BY can return for the rows of S
Orderings(S) ==
    { f \in [1..Cardinality(S) -> S] : \A i, j \in 1..Cardinality(S) : i # j => f[i] # f[j] }

\* the rows getDriverAvailability selects
AvailabilityRows(pid, startDate, endDate) ==
    IF startDate # NoDate /\ endDate # NoDate
    THEN { r \in availability : /\ r.driverProfileId = pid
                                /\ r.date >= startDate
                                /\ r.date <= endDate }
    ELSE { r \in availability : r.driverProfileId = pid }

\* getDriverAvailability: the results the query can give
getDriverAvailability(pid, startDate, endDate) ==
    Orderings(AvailabilityRows(pid, startDate, endDate))

\* getDriverAvailabilityByDate: the rows the select can put first
getDriverAvailabilityByDate(pid, date) ==
    { r \in availability : r.driverProfileId = pid /\ r.date = date }

\* UPDATE driver_availability SET ... WHERE id = existing.id
updateAvailabilityRow(table, id, status) ==
    { IF r.id = id THEN [r EXCEPT !.status = status] ELSE r : r \in table }

\* INSERT INTO driver_availability: the table has no unique constraint
insertAvailabilityRow(table, pid, date, status) ==
    table \cup { AvailabilityRow(Cardinality(table) + 1, pid, date, status) }

\* an upsert that never looks for the existing entry
upsertDriverAvailability_AlwaysInserts(pid, date, status) ==
    { [existing |-> FALSE,
       table |-> insertAvailabilityRow(availability, pid, date, status)] }

\* upsertDriverAvailability run without interruption: the tables it can leave
upsertDriverAvailability(pid, date, status) ==
    IF getDriverAvailabilityByDate(pid, date) # {}
    THEN { [existing |-> TRUE,
            table |-> updateAvailabilityRow(availability, existing.id, status)] :
             existing \in getDriverAvailabilityByDate(pid, date) }
    ELSE { [existing |-> FALSE,
            table |-> insertAvailabilityRow(availability, pid, date, status)] }

\* a request of the availability, lookup and proxy routes
Unrelated == UNCHANGED <<profiles, env, patchReq, adminReq, readReq, onfleet, sync,
                         availReq, verifyReq>>

\* POST /api/availability
SetAvailability(u, date, status) ==
    /\ Unrelated
    /\ LET profile == getDriverProfile(u) IN
       IF profile = NoProfile
       THEN /\ Respond("availability", 404)
            /\ reply' = [route |-> "set", date |-> date, status |-> status, existing |-> FALSE]
            /\ UNCHANGED availability
       ELSE IF date = BadDate
       THEN /\ Respond("availability", 400)
            /\ reply' = [route |-> "set", date |-> date, status |-> status, existing |-> FALSE]
            /\ UNCHANGED availability
       ELSE \E o \in upsertDriverAvailability(profile.id, date, status) :
               /\ availability' = o.table
               /\ Respond("availability", 200)
               /\ reply' = [ route |-> "set", date |-> date, status |-> status,
                             existing |-> o.existing ]

\* GET /api/availability
ListAvailability(u, startDate, endDate) ==
    /\ Unrelated
    /\ UNCHANGED availability
    /\ LET profile == getDriverProfile(u) IN
       IF profile = NoProfile
       THEN /\ Respond("list", 404)
            /\ reply' = [route |-> "list", startDate |-> startDate, endDate |-> endDate,
                         rows |-> <<>>]
       ELSE \E rows \in getDriverAvailability(profile.id, startDate, endDate) :
               /\ Respond("list", 200)
               /\ reply' = [route |-> "list", startDate |-> startDate, endDate |-> endDate,
                            rows |-> rows]

(***************************************************************************)
(* GET /api/external/availability-by-phone/:phone                          *)
(***************************************************************************)
PhoneParen == "(416) 555-1234"
Phone1Digits == "4165551234"
Phone1IntlDigits == "14165551234"
Phone2Digits == "6475550199"

\* the phones of the lookup requests, and those profiles store
RequestPhones == {Phone1, Phone1Digits, Phone1Intl, PhoneParen, Phone2}
StoredPhones == {Phone1, Phone1Digits}

\* phone.replace(/\D/g, "")
NormalizedPhone(phone) ==
    CASE phone \in {Phone1, Phone1Digits, PhoneParen} -> Phone1Digits
      [] phone \in {Phone1Intl, Phone1IntlDigits} -> Phone1IntlDigits
      [] phone \in {Phone2, Phone2Digits} -> Phone2Digits
      [] OTHER -> phone

\* normalizedPhone.replace(/(\d{3})(\d{3})(\d{4})/, "$1-$2-$3"): the first
\* ten digits are dashed, an eleventh digit stays behind them
FormattedPhone(digits) ==
    CASE digits = Phone1Digits -> Phone1
      [] digits = Phone1IntlDigits -> "141-655-51234"
      [] digits = Phone2Digits -> Phone2
      [] OTHER -> digits

\* a lookup that tries the raw and the digits-only form only
PhoneForms_NoDashed(phone) ==
    << [form |-> "raw", phone |-> phone],
       [form |-> "digits", phone |-> NormalizedPhone(phone)] >>

\* the forms the lookup tries, in its order
PhoneForms(phone) ==
    << [form |-> "raw", phone |-> phone],
       [form |-> "digits", phone |-> NormalizedPhone(phone)],
       [form |-> "dashed", phone |-> FormattedPhone(NormalizedPhone(phone))] >>

\* getDriverProfileByPhone: the users whose row stores phone
getDriverProfileByPhone(phone) ==
    { u \in Users : profiles[u] # NoProfile /\ profiles[u].phone = phone }

\* the first form of the lookup that finds a row, 0 if none does
FirstMatch(phone) ==
    LET forms == PhoneForms(phone)
        hits == { i \in DOMAIN forms : getDriverProfileByPhone(forms[i].phone) # {} }
    IN IF hits = {} THEN 0 ELSE CHOOSE i \in hits : \A j \in hits : i <= j

ExternalByPhone(phone, apiKeyValid) ==
    /\ Unrelated
    /\ UNCHANGED availability
    /\ IF ~apiKeyValid
       THEN /\ Respond("byPhone", 401)
            /\ reply' = [route |-> "byPhone", phone |-> phone, driver |-> Null,
                         via |-> "-", rows |-> <<>>]
       ELSE IF FirstMatch(phone) = 0
       THEN /\ Respond("byPhone", 404)
            /\ reply' = [route |-> "byPhone", phone |-> phone, driver |-> Null,
                         via |-> "-", rows |-> <<>>]
       ELSE LET hit == PhoneForms(phone)[FirstMatch(phone)] IN
            \E u \in getDriverProfileByPhone(hit.phone) :
            \E rows \in getDriverAvailability(profiles[u].id, NoDate, NoDate) :
               /\ Respond("byPhone", 200)
               /\ reply' = [route |-> "byPhone", phone |-> phone, driver |-> profiles[u].id,
                            via |-> hit.form, rows |-> rows]

(***************************************************************************)
(* GET and POST /api/availability-response/:token                          *)
(***************************************************************************)
\* what fetch of the remote availability service can give: a response with
\* a status and a body that is JSON or not, or a network error
RemoteResponses ==
    { [status |-> st, json |-> j, body |-> "remote body"] :
        st \in {200, 404, 502}, j \in BOOLEAN }
      \cup { [status |-> 0, json |-> FALSE, body |-> "network error"] }

\* the response of the proxy for what the remote service gave
ProxyReply(route, remote) ==
    IF ~env.availabilityApi
    THEN [route |-> route, called |-> FALSE, remote |-> remote, status |-> 500,
          body |-> "Availability API not configured"]
    ELSE IF remote.status = 0 \/ ~remote.json
    THEN [route |-> route, called |-> TRUE, remote |-> remote, status |-> 500,
          body |-> "Failed"]
    ELSE IF remote.status \notin 200..299
    THEN [route |-> route, called |-> TRUE, remote |-> remote, status |-> remote.status,
          body |-> remote.body]
    ELSE [route |-> route, called |-> TRUE, remote |-> remote, status |-> 200,
          body |-> remote.body]

ProxyGet(remote) ==
    /\ Unrelated
    /\ UNCHANGED availability
    /\ reply' = ProxyReply("proxyGet", remote)
    /\ Respond("proxyGet", reply'.status)

ProxyPost(remote) ==
    /\ Unrelated
    /\ UNCHANGED availability
    /\ reply' = ProxyReply("proxyPost", remote)
    /\ Respond("proxyPost", reply'.status)

\* profiles as POST /api/profile leaves them: completed or not, with the
\* phone of the body as it was typed
AvailabilityProfiles(u) ==
    { createDriverProfile(u, [ onboardingStep |-> 5, onboardingCompleted |-> T,
                               agreementSigned |-> T, phone |-> p ]) :
        p \in StoredPhones \cup {Null} }
      \cup { createDriverProfile(u, [ onboardingStep |-> 1, onboardingCompleted |-> F,
                                      agreementSigned |-> F, phone |-> Phone1 ]) }
      \cup { NoProfile }

\* the deployment without AVAILABILITY_API_URL matters to the proxy routes
\* only, which read no table: it is explored with no profile stored
InitA ==
    /\ profiles \in [Users -> UNION { AvailabilityProfiles(u) : u \in Users }]
    /\ env \in { [DefaultEnv EXCEPT !.availabilityApi = a] : a \in BOOLEAN }
    /\ ~env.availabilityApi => \A u \in Users : profiles[u] = NoProfile
    /\ last = [op |-> "none", status |-> 0, seen |-> "-"]
    /\ patchReq = Idle
    /\ adminReq = Idle
    /\ readReq = Idle
    /\ onfleet = [p \in RemotePhones |-> <<>>]
    /\ sync = NoSync
    /\ availability = {}
    /\ reply = NoReply
    /\ availReq = [r \in Requests |-> Idle]
    /\ verifyReq = [r \in Requests |-> Idle]

NextA ==
    \/ \E u \in Users, d \in Dates \cup {BadDate}, st \in AvailabilityStatuses :
          SetAvailability(u, d, st)
    \/ \E u \in Users, d1, d2 \in Dates \cup {NoDate} : ListAvailability(u, d1, d2)
    \/ \E phone \in RequestPhones, k \in BOOLEAN : ExternalByPhone(phone, k)
    \/ \E remote \in RemoteResponses : ProxyGet(remote)
    \/ \E remote \in RemoteResponses : ProxyPost(remote)

SpecA == InitA /\ [][NextA]_vars

\* no request is in flight in the slot req
Free(req) == req.pc \in {"idle", "done"}

(***************************************************************************)
(* SpecAC: POST /api/availability requests interleaved at the awaits of    *)
(* upsertDriverAvailability: the select of getDriverAvailabilityByDate,    *)
(* then the update or the insert.                                          *)
(***************************************************************************)
InitAC ==
    /\ profiles \in [Users -> UNION { AvailabilityProfiles(u) \ {NoProfile} : u \in Users }]
    /\ \A u \in Users : profiles[u].phone = Phone1
    /\ env = DefaultEnv
    /\ last = [op |-> "none", status |-> 0, seen |-> "-"]
    /\ patchReq = Idle
    /\ adminReq = Idle
    /\ readReq = Idle
    /\ onfleet = [p \in RemotePhones |-> <<>>]
    /\ sync = NoSync
    /\ availability = {}
    /\ reply = NoReply
    /\ availReq = [r \in Requests |-> Idle]
    /\ verifyReq = [r \in Requests |-> Idle]

\* the handler up to the select of upsertDriverAvailability: existing is
\* the id of the row the select returned, 0 if it returned none
UpsertStart(r, u, date, status) ==
    /\ Free(availReq[r])
    /\ LET profile == getDriverProfile(u) IN
       IF profile = NoProfile
       THEN availReq' = [availReq EXCEPT ![r] = [pc |-> "done", status |-> 404]]
       ELSE IF date = BadDate
       THEN availReq' = [availReq EXCEPT ![r] = [pc |-> "done", status |-> 400]]
       ELSE \E existing \in { row.id : row \in getDriverAvailabilityByDate(profile.id, date) }
                              \cup { id \in {0} : getDriverAvailabilityByDate(profile.id, date) = {} } :
               availReq' = [availReq EXCEPT ![r] =
                              [ pc |-> "write", pid |-> profile.id, date |-> date,
                                status |-> status, existing |-> existing ]]
    /\ UNCHANGED <<profiles, env, last, patchReq, adminReq, readReq, onfleet, sync,
                   availability, reply, verifyReq>>

\* the update of the row found, or the insert
UpsertWrite(r) ==
    /\ availReq[r].pc = "write"
    /\ availability' =
          IF availReq[r].existing # 0
          THEN updateAvailabilityRow(availability, availReq[r].existing, availReq[r].status)
          ELSE insertAvailabilityRow(availability, availReq[r].pid, availReq[r].date,
                                     availReq[r].status)
    /\ availReq' = [availReq EXCEPT ![r] = [pc |-> "done", status |-> 200]]
    /\ UNCHANGED <<profiles, env, last, patchReq, adminReq, readReq, onfleet, sync,
                   reply, verifyReq>>

NextAC ==
    \/ \E r \in Requests, u \in Users, d \in Dates \cup {BadDate}, st \in AvailabilityStatuses :
          UpsertStart(r, u, d, st)
    \/ \E r \in Requests : UpsertWrite(r)

SpecAC == InitAC /\ [][NextAC]_vars

(***************************************************************************)
(* SpecV: status polls and webhooks of one verification session            *)
(* interleaved at their awaits: the read of the profile, the status        *)
(* update, the lookup of syncDriverToOnfleet, and its create or update     *)
(* with the write of onfleetId.                                            *)
(***************************************************************************)
\* a poll or webhook in flight: profile is the row it read at its start,
\* existing the outcome of its lookup, invoked whether it has called
\* syncDriverToOnfleet
VerifyReq(pc, kind, u, profile, newStatus, existing, invoked) ==
    [ pc |-> pc, kind |-> kind, u |-> u, profile |-> profile, newStatus |-> newStatus,
      existing |-> existing, invoked |-> invoked ]

\* no lookup made
NoLookup == [call |-> "-", worker |-> Null]

\* a poll or webhook that answered without recording a status
Answered(kind) == VerifyReq("done", kind, Null, NoProfile, Null, NoLookup, FALSE)

InitV ==
    /\ profiles \in [Users -> UNION { SessionRows(u) : u \in Users }]
    /\ \A u \in Users : profiles[u].id = ProfileId(u)
    /\ env = DefaultEnv
    /\ last = [op |-> "none", status |-> 0, seen |-> "-"]
    /\ patchReq = Idle
    /\ adminReq = Idle
    /\ readReq = Idle
    /\ onfleet = [p \in RemotePhones |-> <<>>]
    /\ sync = NoSync
    /\ availability = {}
    /\ reply = NoReply
    /\ availReq = [r \in Requests |-> Idle]
    /\ verifyReq = [r \in Requests |-> Idle]

\* GET /api/identity/status up to its first write: getDriverProfile, the
\* retrieve of the session and the switch on its status
PollStart(r, u, remote) ==
    /\ verifyReq[r] = Idle
    /\ LET profile == getDriverProfile(u) IN
       IF profile = NoProfile
       THEN /\ Respond("poll", 404)
            /\ verifyReq' = [verifyReq EXCEPT ![r] = Answered("poll")]
       ELSE IF ~Truthy(profile.identityVerificationSessionId)
       THEN /\ Respond("poll", 200)
            /\ verifyReq' = [verifyReq EXCEPT ![r] = Answered("poll")]
       ELSE IF remote = "throw"
       THEN /\ Respond("poll", 500)
            /\ verifyReq' = [verifyReq EXCEPT ![r] = Answered("poll")]
       ELSE LET newStatus == PollStatus(remote, profile.identityVerificationStatus) IN
            IF newStatus # profile.identityVerificationStatus
            THEN /\ UNCHANGED last
                 /\ verifyReq' = [verifyReq EXCEPT ![r] =
                       VerifyReq("update", "poll", u, profile, newStatus, NoLookup, FALSE)]
            ELSE /\ RespondVerification("poll", remote)
                 /\ verifyReq' = [verifyReq EXCEPT ![r] = Answered("poll")]
    /\ UNCHANGED <<profiles, env, patchReq, adminReq, readReq, onfleet, sync,
                   availability, reply, availReq>>

\* POST /api/webhooks/stripe-identity up to its first write: the signature
\* gate, getAllDriverProfiles and the switch on the session status
WebhookStart(r, ev) ==
    /\ verifyReq[r] = Idle
    /\ IF WebhookGate(ev) # 0
       THEN /\ Respond("webhook", WebhookGate(ev))
            /\ verifyReq' = [verifyReq EXCEPT ![r] = Answered("webhook")]
       ELSE IF ev.identity /\ FindBySession(ev.sessionId) # {}
       THEN LET u == CHOOSE v \in FindBySession(ev.sessionId) : TRUE IN
            /\ UNCHANGED last
            /\ verifyReq' = [verifyReq EXCEPT ![r] =
                  VerifyReq("update", "webhook", u, profiles[u],
                            WebhookStatus(ev.status), NoLookup, FALSE)]
       ELSE /\ Respond("webhook", 200)
            /\ verifyReq' = [verifyReq EXCEPT ![r] = Answered("webhook")]
    /\ UNCHANGED <<profiles, env, patchReq, adminReq, readReq, onfleet, sync,
                   availability, reply, availReq>>

\* the update of identityVerificationStatus, and the test that guards the
\* sync, made on the row read at the start
VerifyUpdate(r) ==
    /\ verifyReq[r].pc = "update"
    /\ LET q == verifyReq[r] IN
       /\ \E upd \in VerificationUpdates(q.newStatus) :
             Store(q.u, updateDriverProfile(profiles[q.u], upd))
       /\ IF q.newStatus = "verified" /\ Truthy(q.profile.phone) /\ ~Truthy(q.profile.onfleetId)
          THEN /\ UNCHANGED last
               /\ verifyReq' = [verifyReq EXCEPT ![r].pc = "find"]
          ELSE /\ Respond(q.kind, 200)
               /\ verifyReq' = [verifyReq EXCEPT ![r].pc = "done"]
    /\ UNCHANGED <<env, patchReq, adminReq, readReq, onfleet, sync,
                   availability, reply, availReq>>

\* the call of syncDriverToOnfleet up to the answer of findWorkerByPhone
SyncFind(r) ==
    /\ verifyReq[r].pc = "find"
    /\ \E existingWorker \in findWorkerByPhone(verifyReq[r].profile.phone) :
          verifyReq' = [verifyReq EXCEPT ![r].pc = "write",
                                         ![r].existing = existingWorker,
                                         ![r].invoked = TRUE]
    /\ UNCHANGED <<profiles, env, last, patchReq, adminReq, readReq, onfleet, sync,
                   availability, reply, availReq>>

\* the rest of syncDriverToOnfleet, updateWorker or createWorker, and the
\* write of onfleetId after a successful sync
SyncWrite(r) ==
    /\ verifyReq[r].pc = "write"
    /\ LET q == verifyReq[r] IN
       /\ IF Truthy(q.existing.worker)
          THEN \E upd \in updateWorker(q.existing.worker) :
                  /\ onfleet' = onfleet
                  /\ sync' = SyncRun(q.profile.phone, q.existing.call, upd, "-",
                                     SyncResult(TRUE, q.existing.worker, TRUE, ""))
          ELSE \E newWorker \in createWorker(q.profile.phone) :
                  /\ onfleet' = newWorker.workers
                  /\ sync' = SyncRun(q.profile.phone, q.existing.call, "-", newWorker.call,
                                     IF Truthy(newWorker.worker)
                                     THEN SyncResult(TRUE, newWorker.worker, FALSE, "")
                                     ELSE SyncResult(FALSE, Null, FALSE,
                                                     "Failed to create worker in Onfleet"))
       /\ IF sync'.result.success /\ Truthy(sync'.result.onfleetId)
          THEN Store(q.u, updateDriverProfile(profiles[q.u],
                                              [onfleetId |-> sync'.result.onfleetId]))
          ELSE UNCHANGED profiles
       /\ Respond(q.kind, 200)
       /\ verifyReq' = [verifyReq EXCEPT ![r].pc = "done"]
    /\ UNCHANGED <<env, patchReq, adminReq, readReq, availability, reply, availReq>>

NextV ==
    \/ \E r \in Requests, u \in Users, remote \in StripeRetrieveResults : PollStart(r, u, remote)
    \/ \E r \in Requests, ev \in Events : WebhookStart(r, ev)
    \/ \E r \in Requests : VerifyUpdate(r)
    \/ \E r \in Requests : SyncFind(r)
    \/ \E r \in Requests : SyncWrite(r)

SpecV == InitV /\ [][NextV]_vars

(***************************************************************************)
(* SpecC: requests on one profile interleaved at their awaits.  Every      *)
(* storage call is one statement of the database and takes effect on the   *)
(* row as stored at that moment; what a handler keeps between two awaits   *)
(* is the value an earlier call returned.                                  *)
(***************************************************************************)
\* rows of profiles whose onboarding is under way: what the implicit create
\* leaves for the personal-information form
OnboardingRows(u) ==
    { createDriverProfile(u, CreateData(b)) :
        b \in { c \in FormBodies : c.form = "personal" } }

InitC ==
    /\ profiles \in [Users -> UNION { OnboardingRows(u) : u \in Users }]
    /\ \A u \in Users : profiles[u].id = ProfileId(u)
    /\ env = DefaultEnv
    /\ last = [op |-> "none", status |-> 0, seen |-> "-"]
    /\ patchReq = Idle
    /\ adminReq = Idle
    /\ readReq = Idle
    /\ onfleet = [p \in RemotePhones |-> <<>>]
    /\ sync = NoSync
    /\ availability = {}
    /\ reply = NoReply
    /\ availReq = [r \in Requests |-> Idle]
    /\ verifyReq = [r \in Requests |-> Idle]

\* PATCH /api/profile up to its first write: getDriverProfile, the step
\* validation and updateDriverProfileSchema.parse
PatchStart(u, b) ==
    /\ Free(patchReq)
    /\ getDriverProfile(u) # NoProfile
    /\ patchReq' = IF StepValidation(b)
                   THEN [pc |-> "update", user |-> u, validated |-> updateDriverProfileSchema(b)]
                   ELSE [pc |-> "done", user |-> u, status |-> 400]
    /\ UNCHANGED <<profiles, env, last, adminReq, readReq, onfleet, sync,
                 availability, reply, availReq, verifyReq>>

\* updatedProfile = await storage.updateDriverProfile(userId, validated)
PatchUpdate ==
    /\ patchReq.pc = "update"
    /\ LET u == patchReq.user
           updatedProfile == updateDriverProfile(profiles[u], patchReq.validated)
       IN /\ Store(u, updatedProfile)
          /\ patchReq' =
                IF Truthy(updatedProfile.onboardingCompleted)
                     /\ ~Truthy(updatedProfile.approvalStatus)
                THEN [pc |-> "derive", user |-> u]
                ELSE [pc |-> "done", user |-> u, status |-> 200]
    /\ UNCHANGED <<env, last, adminReq, readReq, onfleet, sync,
                 availability, reply, availReq, verifyReq>>

\* await storage.updateDriverProfile(userId, { approvalStatus: "pending" })
PatchDerive ==
    /\ patchReq.pc = "derive"
    /\ LET u == patchReq.user IN
       /\ Store(u, updateDriverProfile(profiles[u], [approvalStatus |-> "pending"]))
       /\ patchReq' = [pc |-> "done", user |-> u, status |-> 200]
    /\ UNCHANGED <<env, last, adminReq, readReq, onfleet, sync,
                 availability, reply, availReq, verifyReq>>

\* an admin decision up to its write: getDriverProfileById and the checks
AdminStart(kind, adminUserId, pid, now) ==
    /\ Free(adminReq)
    /\ LET profile == getDriverProfileById(pid) IN
       adminReq' =
         IF profile = NoProfile
         THEN [pc |-> "done", status |-> 404]
         ELSE IF kind = "approve" /\ profile.approvalStatus = "approved"
         THEN [pc |-> "done", status |-> 400]
         ELSE [pc |-> "write", kind |-> kind, pid |-> pid, by |-> adminUserId, at |-> now]
    /\ UNCHANGED <<profiles, env, last, patchReq, readReq, onfleet, sync,
                 availability, reply, availReq, verifyReq>>

\* await storage.updateDriverProfileById(profileId, {...})
AdminWrite ==
    /\ adminReq.pc = "write"
    /\ LET u == Owner(adminReq.pid)
           data == IF adminReq.kind = "approve"
                   THEN [ approvalStatus |-> "approved",
                          approvedAt |-> adminReq.at,
                          approvedBy |-> adminReq.by,
                          identityVerificationStatus |-> "pending" ]
                   ELSE [ approvalStatus |-> "rejected",
                          approvedAt |-> adminReq.at,
                          approvedBy |-> adminReq.by ]
       IN Store(u, updateDriverProfileById(profiles[u], data))
    /\ adminReq' = [pc |-> "done", status |-> 200]
    /\ UNCHANGED <<env, last, patchReq, readReq, onfleet, sync,
                 availability, reply, availReq, verifyReq>>

\* GET /api/profile: one select, answered with the row it returns (of the
\* response, the two columns of the derived transition are kept)
GetProfile(u) ==
    /\ readReq' = [ pc |-> "done",
                    onboardingCompleted |-> getDriverProfile(u).onboardingCompleted,
                    approvalStatus |-> getDriverProfile(u).approvalStatus ]
    /\ UNCHANGED <<profiles, env, last, patchReq, adminReq, onfleet, sync,
                 availability, reply, availReq, verifyReq>>

NextC ==
    \/ \E u \in Users, b \in FlagBodies : PatchStart(u, b)
    \/ PatchUpdate
    \/ PatchDerive
    \/ \E k \in {"approve", "reject"}, a \in Admins, u \in Users, t \in Times :
          AdminStart(k, a, ProfileId(u), t)
    \/ AdminWrite
    \/ \E u \in Users : GetProfile(u)

SpecC == InitC /\ [][NextC]_vars

(***************************************************************************)
(* Properties of the lifecycle.                                            *)
(***************************************************************************)
Exists(u) == profiles[u] # NoProfile

\* C1: in every reachable state every profile with a non-null
\* approvalStatus has onboardingCompleted = true.
C1_ApprovalOnlyIfCompleted ==
    \A u \in Users :
        (Exists(u) /\ profiles[u].approvalStatus # Null)
            => profiles[u].onboardingCompleted = T

\* C2: in every reachable state every profile with a non-null
\* identityVerificationStatus has approvalStatus = approved.
C2_VerificationOnlyIfApproved ==
    \A u \in Users :
        (Exists(u) /\ profiles[u].identityVerificationStatus # Null)
            => profiles[u].approvalStatus = "approved"

\* C3: admin approve on a profile whose approvalStatus is approved,
\* rejected or null answers with an error and leaves the profile unchanged.
C3_ApproveOnlyPending ==
    [][ \A a \in Admins, u \in Users, t \in Times :
          ( /\ Exists(u)
            /\ profiles[u].approvalStatus # "pending"
            /\ AdminApprove(a, ProfileId(u), t) )
          => (last'.status >= 400 /\ profiles'[u] = profiles[u]) ]_vars

\* C4: admin reject on a profile that is already approved or already
\* rejected answers with a conflict error and leaves approvalStatus,
\* approvedAt and approvedBy unchanged.
C4_RejectOnlyPending ==
    [][ \A a \in Admins, u \in Users, t \in Times :
          ( /\ Exists(u)
            /\ profiles[u].approvalStatus \in {"approved", "rejected"}
            /\ AdminReject(a, ProfileId(u), t) )
          => ( /\ last'.status >= 400
               /\ profiles'[u].approvalStatus = profiles[u].approvalStatus
               /\ profiles'[u].approvedAt = profiles[u].approvedAt
               /\ profiles'[u].approvedBy = profiles[u].approvedBy ) ]_vars

\* C5: admin approve on a pending profile succeeds and leaves it with
\* approvalStatus = approved, approvedAt and approvedBy stamped with the
\* instant and the acting admin, and identityVerificationStatus = pending.
C5_ApproveEffect ==
    [][ last'.op = "approve" => \A a \in Admins, u \in Users, t \in Times :
          ( /\ Exists(u)
            /\ profiles[u].approvalStatus = "pending"
            /\ AdminApprove(a, ProfileId(u), t) )
          => ( /\ last'.status = 200
               /\ profiles'[u].approvalStatus = "approved"
               /\ profiles'[u].approvedAt = t
               /\ profiles'[u].approvedBy = a
               /\ profiles'[u].identityVerificationStatus = "pending" ) ]_vars

\* an approve that read a pending row has answered 200 and the row is
\* approved, awaiting verification
C5_Witness ==
    /\ last = [op |-> "approve", status |-> 200, seen |-> "pending"]
    /\ \E u \in Users :
          /\ Exists(u)
          /\ profiles[u].approvalStatus = "approved"
          /\ profiles[u].approvedBy \in Admins
          /\ profiles[u].approvedAt \in Times
          /\ profiles[u].identityVerificationStatus = "pending"

\* C6: whenever a PATCH succeeds and the stored profile has
\* onboardingCompleted = true, its approvalStatus is non-null: pending if
\* it was null before, and a status already set is kept unless the body
\* itself names the column.
C6_CompletedPatchIsPending ==
    [][ \A u \in Users, b \in LifecycleBodies :
          ( /\ last'.op = "patch"
            /\ last'.status = 200
            /\ profiles'[u].onboardingCompleted = T
            /\ PatchProfile(u, b) )
          => ( /\ profiles'[u].approvalStatus # Null
               /\ (Exists(u) /\ profiles[u].approvalStatus = Null
                      /\ b.approvalStatus = Absent)
                     => profiles'[u].approvalStatus = "pending"
               /\ (Exists(u) /\ profiles[u].approvalStatus # Null
                      /\ b.approvalStatus = Absent)
                     => profiles'[u].approvalStatus = profiles[u].approvalStatus ) ]_vars

\* C7: completing onboarding and entering approvalStatus = pending are one
\* atomic step: no GET observes onboardingCompleted = true with a null
\* approvalStatus, and the derived write never overwrites the decision of
\* a concurrent admin request.
C7_AtomicCompletion ==
    [][ /\ (readReq'.pc = "done" /\ readReq'.onboardingCompleted = T)
              => readReq'.approvalStatus # Null
        /\ PatchDerive =>
              \A u \in Users :
                 profiles[u].approvalStatus \in {"approved", "rejected"}
                    => profiles'[u].approvalStatus = profiles[u].approvalStatus ]_vars

\* the body carries a target step whose schema it does not satisfy
FailsTargetSchema(b) ==
    \/ b.onboardingStep = 2 /\ ~step1ValidationSchema(b)
    \/ b.onboardingStep = 3 /\ ~step2ValidationSchema(b)
    \/ b.onboardingStep = 4 /\ ~step3ValidationSchema(b)
    \/ b.onboardingStep = 5 /\ b.onboardingCompleted = T /\ ~step4ValidationSchema(b)

\* the bodies of the model that fail the schema of their target step
FailingBodies == { b \in Bodies : FailsTargetSchema(b) }

\* C8: a PATCH on an existing profile whose body fails the schema of its
\* target step (2, 3, 4, or 5 with onboardingCompleted) answers with a
\* validation error and leaves every stored column unchanged.
C8_InvalidPatchCommitsNothing ==
    [][ last'.op = "patch" =>
          \A u \in Users, b \in FailingBodies :
             (Exists(u) /\ PatchProfile(u, b))
             => (last'.status = 400 /\ profiles' = profiles) ]_vars

\* a PATCH on an existing profile has been refused with 400
C8_Witness ==
    /\ last.op = "patch"
    /\ last.status = 400
    /\ \E u \in Users : Exists(u) /\ profiles[u].onboardingStep < 4

\* C9: in every reachable state a profile with onboardingCompleted = true
\* has agreementSigned = true.
C9_CompletedImpliesSigned ==
    \A u \in Users :
        (Exists(u) /\ profiles[u].onboardingCompleted = T)
            => profiles[u].agreementSigned = T

\* C10: onboardingCompleted is monotonic: once true, no later operation
\* sets it back.
C10_CompletedMonotonic ==
    [][ \A u \in Users :
          (Exists(u) /\ profiles[u].onboardingCompleted = T)
            => profiles'[u].onboardingCompleted = T ]_vars

(***************************************************************************)
(* Properties of the onboarding steps.                                     *)
(***************************************************************************)
\* C11: in every reachable state every profile's onboardingStep is an
\* integer in 1..5; a request that asks for a step above 5 is not stored.
C11_StepInRange ==
    \A u \in Users : Exists(u) => profiles[u].onboardingStep \in 1..5

\* C12: whenever a PATCH with target onboardingStep = 5 succeeds, the
\* resulting profile has onboardingCompleted = true.
C12_StepFiveIsCompletion ==
    [][ (last'.op = "patch" /\ last'.status = 200) =>
          \A u \in Users, b \in Bodies :
             (b.onboardingStep = 5 /\ PatchProfile(u, b))
             => profiles'[u].onboardingCompleted = T ]_vars

\* C13: for every profile state, the implicit create included, a PATCH
\* targeting step 2 is accepted only with a valid personal form, one
\* targeting step 3 only with a complete address and one targeting step 4
\* only with complete vehicle fields.
C13_AcceptedOnlyIfValid ==
    [][ (last'.op = "patch" /\ last'.status = 200) =>
          \A u \in Users, b \in Bodies :
             PatchProfile(u, b)
             => ( /\ b.onboardingStep = 2 => step1ValidationSchema(b)
                  /\ b.onboardingStep = 3 => step2ValidationSchema(b)
                  /\ b.onboardingStep = 4 => step3ValidationSchema(b) ) ]_vars

\* the bodies that target step 2, 3 or 4 and satisfy that step's schema
ValidStepBodies ==
    { b \in Bodies : /\ b.onboardingStep \in 2..4
                     /\ ~FailsTargetSchema(b) }

Applied(l) == l.op \in {"poll", "webhook"} /\ l.status = 200 /\ l.seen \in RemoteStatuses

\* the profile a poll or webhook of the model addresses: the one that
\* holds a verification session
HasSession(u) == Exists(u) /\ profiles[u].identityVerificationSessionId # Null

\* the mapping of the remote vocabulary onto the local one
LocalStatus(remote, current) ==
    IF remote = "verified" THEN "verified"
    ELSE IF remote \in {"requires_input", "requires_action"} THEN "requires_input"
    ELSE IF remote = "canceled" THEN "failed"
    ELSE IF remote \in {"processing", "requires_review"} THEN "pending"
    ELSE current

\* C15: for every remote status and every current local status, the poll
\* and the webhook leave the local identityVerificationStatus the mapping
\* gives; any other remote status leaves it unchanged.
C15_StatusMapping ==
    [][ Applied(last') =>
          \A u \in Users :
             HasSession(u) =>
                profiles'[u].identityVerificationStatus
                  = LocalStatus(last'.seen, profiles[u].identityVerificationStatus) ]_vars

\* C16: the same remote status applied twice in a row, by poll or webhook
\* in any combination: the second application does not re-stamp
\* identityVerifiedAt and does not call the fleet sync.
C16_SameStatusTwice ==
    [][ (Applied(last) /\ Applied(last') /\ last'.seen = last.seen) =>
          /\ \A u \in Users :
                HasSession(u) =>
                   profiles'[u].identityVerifiedAt = profiles[u].identityVerifiedAt
          /\ sync' = NoSync ]_vars

\* C17: when verified is recorded for an approved profile with a phone and
\* no onfleetId (the poll records a status only if it differs from the
\* stored one), the fleet sync is called, the profile ends verified
\* whatever the sync returns, and after a failed sync onfleetId is still
\* null.
C17_SyncFailureKeepsVerified ==
    [][ (Applied(last') /\ last'.seen = "verified") =>
          \A u \in Users :
             ( /\ HasSession(u)
               /\ profiles[u].approvalStatus = "approved"
               /\ Truthy(profiles[u].phone)
               /\ ~Truthy(profiles[u].onfleetId)
               /\ last'.op = "poll" => profiles[u].identityVerificationStatus # "verified" )
             => ( /\ sync' # NoSync
                  /\ profiles'[u].identityVerificationStatus = "verified"
                  /\ ~sync'.result.success => profiles'[u].onfleetId = Null ) ]_vars

\* a verified status has been recorded, the sync it triggered has failed,
\* and the approved profile is verified with no onfleetId
C17_Witness ==
    /\ Applied(last)
    /\ last.seen = "verified"
    /\ sync # NoSync
    /\ ~sync.result.success
    /\ \E u \in Users :
          /\ HasSession(u)
          /\ profiles[u].approvalStatus = "approved"
          /\ profiles[u].identityVerificationStatus = "verified"
          /\ profiles[u].onfleetId = Null

\* C18: in every reachable state a profile with a non-null onfleetId has
\* identityVerificationStatus = verified.
C18_SyncedOnlyIfVerified ==
    \A u \in Users :
        (Exists(u) /\ profiles[u].onfleetId # Null)
            => profiles[u].identityVerificationStatus = "verified"

\* a remote call of the run failed
CallFailed(run) == "failed" \in {run.find, run.update, run.create}

\* C19: syncDriverToOnfleet returns success = false with an error string
\* whenever a remote call it made failed, and success = true only if every
\* remote call it made succeeded.
C19_SyncReportsFailures ==
    /\ CallFailed(sync) => (~sync.result.success /\ sync.result.error # "")
    /\ sync.result.success => ~CallFailed(sync)

\* C20: after any number of calls of syncDriverToOnfleet the account holds
\* at most one worker per phone number, and a call that finds a worker
\* issues an update and no create.
C20_AtMostOneWorker ==
    /\ \A p \in RemotePhones : Len(onfleet[p]) <= 1
    /\ sync.find = "found" => (sync.update # "-" /\ sync.create = "-")

(***************************************************************************)
(* Properties of the availability store, the lookup and the proxy.         *)
(***************************************************************************)
\* the entries of table for the key (pid, date)
EntriesOf(table, pid, date) ==
    { r \in table : r.driverProfileId = pid /\ r.date = date }

\* C21: setAvailability(p, d, s) run after any earlier setAvailability,
\* one after the other, leaves exactly one entry for (p, d), with status
\* s, and does not change the entries of other keys.
C21_UpsertLaw ==
    [][ last'.op = "availability" =>
          \A u \in Users, d \in Dates, st \in AvailabilityStatuses :
             (Exists(u) /\ SetAvailability(u, d, st))
             => ( /\ last'.status = 200
                  /\ Cardinality(EntriesOf(availability', ProfileId(u), d)) = 1
                  /\ \A r \in EntriesOf(availability', ProfileId(u), d) : r.status = st
                  /\ availability' \ EntriesOf(availability', ProfileId(u), d)
                       = availability \ EntriesOf(availability, ProfileId(u), d) ) ]_vars

\* a second setAvailability for a key has been served: it found the entry
\* of the first, and the key has one entry, with the status of the second
C21_Witness ==
    /\ last = [op |-> "availability", status |-> 200, seen |-> "-"]
    /\ reply.route = "set"
    /\ reply.existing
    /\ \E u \in Users :
          /\ Cardinality(EntriesOf(availability, ProfileId(u), reply.date)) = 1
          /\ \A r \in EntriesOf(availability, ProfileId(u), reply.date) :
                r.status = reply.status
          /\ Cardinality(availability) > 1

\* C23: listAvailability returns the entries in ascending date order; with
\* both bounds the entries with startDate <= date <= endDate, with no
\* bounds all entries of the profile.
C23_ListSortedByDate ==
    (reply.route = "list" /\ last.status = 200) =>
       /\ \A i, j \in DOMAIN reply.rows :
             i < j => reply.rows[i].date < reply.rows[j].date
       /\ (reply.startDate # NoDate /\ reply.endDate # NoDate) =>
             { reply.rows[i] : i \in DOMAIN reply.rows }
               = { r \in availability : r.date >= reply.startDate /\ r.date <= reply.endDate }
       /\ (reply.startDate = NoDate /\ reply.endDate = NoDate) =>
             { reply.rows[i] : i \in DOMAIN reply.rows } = availability

\* C24: an availability entry exists only for a profile that exists and
\* has onboardingCompleted = true.
C24_AvailabilityNeedsCompleted ==
    \A r \in availability :
       \E u \in Users :
          /\ Exists(u)
          /\ profiles[u].id = r.driverProfileId
          /\ profiles[u].onboardingCompleted = T

\* C26: the token proxy never changes a profile or an availability entry,
\* and a non-success response of the remote service is answered with the
\* same status code and body.
C26_ProxyPassThrough ==
    [][ reply'.route \in {"proxyGet", "proxyPost"} =>
          /\ profiles' = profiles
          /\ availability' = availability
          /\ ( /\ reply'.called
               /\ reply'.remote.status # 0
               /\ reply'.remote.status \notin 200..299 )
             => ( /\ reply'.status = reply'.remote.status
                  /\ reply'.body = reply'.remote.body ) ]_vars

\* the form of the requested phone that equals the stored one, trying the
\* raw, the digits-only and the dashed form in that order; "-" if none
MatchingForm(requested, stored) ==
    IF requested = stored THEN "raw"
    ELSE IF NormalizedPhone(requested) = stored THEN "digits"
    ELSE IF FormattedPhone(NormalizedPhone(requested)) = stored THEN "dashed"
    ELSE "-"

\* C27: the lookup by phone finds a profile whenever the requested phone,
\* its digits-only form or its dashed form equals the stored phone, and
\* the forms are tried in the order raw, digits-only, dashed.
C27_PhoneFallback ==
    (reply.route = "byPhone" /\ last.status # 401) =>
       \A u \in Users :
          (Exists(u) /\ MatchingForm(reply.phone, profiles[u].phone) # "-")
          => ( /\ last.status = 200
               /\ reply.driver = profiles[u].id
               /\ reply.via = MatchingForm(reply.phone, profiles[u].phone) )

\* a profile stored as 416-555-1234 has been found by 4165551234
C27_Witness ==
    /\ reply.route = "byPhone"
    /\ reply.phone = Phone1Digits
    /\ last.status = 200
    /\ reply.via = "dashed"
    /\ \E u \in Users : Exists(u) /\ profiles[u].phone = Phone1 /\ reply.driver = profiles[u].id

\* C22: in every reachable state there is at most one availability entry
\* per (driverProfileId, date), also when two setAvailability requests for
\* the same key interleave their read and write steps.
C22_OneEntryPerKey ==
    \A u \in Users, d \in Dates :
       Cardinality(EntriesOf(availability, ProfileId(u), d)) <= 1

\* C25: with a webhook secret configured the webhook changes a profile
\* only for an event whose signature was verified; in production it never
\* changes a profile from an unsigned or wrongly signed event, and with no
\* secret in production every webhook is refused; a refused webhook leaves
\* the profiles unchanged.
C25_WebhookVerifiesSignature ==
    [][ last'.op = "webhook" =>
          /\ (env.production /\ ~env.secret) => last'.status = 500
          /\ last'.status \in {400, 500} => profiles' = profiles
          /\ \A ev \in Events :
                (StripeWebhook(ev) /\ profiles' # profiles) =>
                   /\ env.secret => ev.sig = "valid"
                   /\ env.production => ev.sig = "valid" ]_vars

\* in production with a secret, a webhook has recorded verified for the
\* profile of the session
C25_Witness ==
    /\ env.production
    /\ env.secret
    /\ last = [op |-> "webhook", status |-> 200, seen |-> "verified"]
    /\ \E u \in Users : /\ HasSession(u)
                         /\ profiles[u].identityVerificationStatus = "verified"
                         /\ profiles[u].identityVerifiedAt # NullTime

\* C28: no PATCH or create request of the driver changes approvalStatus
\* (other than the derived null -> pending), approvedAt, approvedBy or
\* identityVerificationStatus; a row such a request creates has none of
\* them set.
C28_DriverCannotDecide ==
    [][ last'.op \in {"patch", "create"} =>
          \A u \in Users :
             /\ (Exists(u) /\ profiles'[u] # NoProfile) =>
                   /\ \/ profiles'[u].approvalStatus = profiles[u].approvalStatus
                      \/ /\ profiles[u].approvalStatus = Null
                         /\ profiles'[u].approvalStatus = "pending"
                   /\ profiles'[u].approvedAt = profiles[u].approvedAt
                   /\ profiles'[u].approvedBy = profiles[u].approvedBy
                   /\ profiles'[u].identityVerificationStatus
                        = profiles[u].identityVerificationStatus
             /\ (~Exists(u) /\ profiles'[u] # NoProfile) =>
                   /\ profiles'[u].approvalStatus \in {Null, "pending"}
                   /\ profiles'[u].approvedAt = NullTime
                   /\ profiles'[u].approvedBy = Null
                   /\ profiles'[u].identityVerificationStatus = Null ]_vars

\* C29: once identityVerificationStatus is verified, no request changes
\* identityVerificationStatus or identityVerifiedAt.
C29_VerifiedIsFinal ==
    [][ \A u \in Users :
           (Exists(u) /\ profiles[u].identityVerificationStatus = "verified") =>
              /\ profiles'[u].identityVerificationStatus = "verified"
              /\ profiles'[u].identityVerifiedAt = profiles[u].identityVerifiedAt ]_vars

\* the requests that called the fleet sync for a transition into verified:
\* the row they read was not verified yet
SyncedTransition ==
    { r \in Requests : /\ verifyReq[r] # Idle
                       /\ verifyReq[r].invoked
                       /\ verifyReq[r].profile.identityVerificationStatus # "verified" }

\* C30: for one profile the fleet sync is invoked at most once for the
\* transition into verified, also when a poll and a webhook, or two
\* webhooks, of the same session each read the profile before the other
\* has written; at most one remote worker is created for the driver.
C30_SyncOncePerVerification ==
    /\ Cardinality(SyncedTransition) <= 1
    /\ \A p \in RemotePhones : Len(onfleet[p]) <= 1
====
